---- MODULE Spec2Model ----
(***************************************************************************)
(* State-machine model of the GPU satellite component (CesiumComponent):   *)
(* the boot effect (backend init, element registration, buffer            *)
(* construction), the self-rescheduling propagateLoop, the preRender       *)
(* animate listener and the effect cleanup with its tryUnregister poll.    *)
(* Every React ref of the component is a variable; every callback the      *)
(* browser can run (effect setup/cleanup, promise continuation, animation  *)
(* frame, timer, render frame) is one action.                              *)
(***************************************************************************)
EXTENDS Integers, Sequences, FiniteSets, TLC

\* ------------------------------------------------------------------ bounds
\* How many times React runs the boot effect's setup for one component
\* instance (the mount plus the re-runs on a dependency change).
MaxSetups == 2
\* How many simulated seconds a render frame can advance the clock by.
MaxStep == 1
\* How many simulated seconds past its start the clock is followed for.
MaxClock == 1
\* Length of a (scaled-down) Julian day in simulated seconds.
SecondsPerDay == 8

\* How many frames the performance monitor is followed for after a reset.
MaxFrames == 250

\* --------------------------------------------------------------- constants
\* The sliding window of frame times keeps the last 240 frames.
WindowCap == 240
\* Statistics are due every 30 frames.
StatsPeriod == 30
\* viewer.clock.stopTime - viewer.clock.startTime, in days.
SpanDays == 3
\* Components per satellite in the flat propagate result: [x y z vx vy vz].
Stride == 6
\* Kilometres to metres.
KmToM == 1000

\* A ref that holds null is the empty sequence, one that holds v is <<v>>.
None == <<>>
Some(v) == <<v>>
Val(r) == r[1]

\* registeredConstSetIdRef.current === null; set ids are 0, 1, 2, ...
NoHandle == -1
\* gpuPropagatorRef.current === null.
NoPropagator == "null"

\* ------------------------------------------------------------------ epochs
\* A JavaScript string is the sequence of its characters.
DigitChars == <<"0", "1", "2", "3", "4", "5", "6", "7", "8", "9">>
IsDigit(c) == \E d \in 1..10 : DigitChars[d] = c
DigitOf(c) == (CHOOSE d \in 1..10 : DigitChars[d] = c) - 1

\* str.substring(from, to) and str.substring(from), 0-based, end exclusive.
Substring(str, from, to) == SubSeq(str, from + 1, IF to < Len(str) THEN to ELSE Len(str))
SubstringFrom(str, from) == SubSeq(str, from + 1, Len(str))

\* The run of digits a string starts with, and the value of a run of digits.
RECURSIVE LeadingDigits(_)
LeadingDigits(str) ==
    IF str = <<>> \/ ~IsDigit(Head(str)) THEN <<>>
    ELSE <<Head(str)>> \o LeadingDigits(Tail(str))

RECURSIVE DigitsValue(_)
DigitsValue(ds) ==
    IF ds = <<>> THEN 0
    ELSE 10 * DigitsValue(SubSeq(ds, 1, Len(ds) - 1)) + DigitOf(ds[Len(ds)])

\* parseInt(str, 10) of a string that starts with a digit.
ParseInt(str) == DigitsValue(LeadingDigits(str))

\* parseFloat(str) of a string "DDD.FFFFFFFF": the whole part, and the
\* fraction as a count of 1e-8 units (up to 8 fraction digits are kept).
ParseFloat(str) ==
    LET w == LeadingDigits(str)
        rest == SubstringFrom(str, Len(w))
        f == IF rest # <<>> /\ Head(rest) = "." THEN LeadingDigits(Tail(rest)) ELSE <<>>
        f8 == SubSeq(f, 1, IF Len(f) < 8 THEN Len(f) ELSE 8)
    IN  [whole |-> DigitsValue(w), e8 |-> DigitsValue(f8) * 10 ^ (8 - Len(f8))]

\* 24 * 60 * 60 * 1000 (line 231).
MsPerDay == 24 * 60 * 60 * 1000

\* Date.UTC(year, 0, 1) in days since 1970-01-01 (ECMAScript DayFromYear).
DayFromYear(y) ==
    365 * (y - 1970) + ((y - 1969) \div 4) - ((y - 1901) \div 100) + ((y - 1601) \div 400)

\* year < 57 ? 2000 + year : 1900 + year (line 229).
FullYear(yy) == IF yy < 57 THEN 2000 + yy ELSE 1900 + yy

\* ---- IEEE-754 double arithmetic of line 231 ----
\* The time value is computed in doubles. A non-negative integer wider than a
\* machine word is a sequence of limbs, least significant first, without
\* leading zero limbs; a double is [neg, m, s], the number (-1)^neg * m / 2^s
\* with m of at most 53 significant bits.
LimbBits == 15
LimbBase == 2 ^ LimbBits

\* The significand width of a double.
MantissaBits == 53

RECURSIVE BigNorm(_)
BigNorm(a) ==
    IF a = <<>> THEN <<>>
    ELSE IF a[Len(a)] = 0 THEN BigNorm(SubSeq(a, 1, Len(a) - 1)) ELSE a

RECURSIVE BigFromNat(_)
BigFromNat(n) ==
    IF n = 0 THEN <<>> ELSE <<n % LimbBase>> \o BigFromNat(n \div LimbBase)

RECURSIVE BigToNat(_)
BigToNat(a) ==
    IF a = <<>> THEN 0 ELSE Head(a) + LimbBase * BigToNat(Tail(a))

BigRest(a) == IF a = <<>> THEN <<>> ELSE Tail(a)

BigLow(a) == IF a = <<>> THEN 0 ELSE Head(a)

RECURSIVE BigMulCarry(_, _, _)
BigMulCarry(a, c, carry) ==
    IF a = <<>> THEN BigFromNat(carry)
    ELSE LET v == Head(a) * c + carry
         IN  <<v % LimbBase>> \o BigMulCarry(Tail(a), c, v \div LimbBase)

\* a * c for 0 <= c <= LimbBase.
BigMulSmall(a, c) == BigNorm(BigMulCarry(a, c, 0))

RECURSIVE BigAddCarry(_, _, _)
BigAddCarry(a, b, carry) ==
    IF a = <<>> /\ b = <<>> THEN BigFromNat(carry)
    ELSE LET v == BigLow(a) + BigLow(b) + carry
         IN  <<v % LimbBase>> \o BigAddCarry(BigRest(a), BigRest(b), v \div LimbBase)

BigAdd(a, b) == BigNorm(BigAddCarry(a, b, 0))

RECURSIVE BigSubBorrow(_, _, _)
BigSubBorrow(a, b, borrow) ==
    IF a = <<>> THEN <<>>
    ELSE LET v == Head(a) - BigLow(b) - borrow
         IN  <<IF v < 0 THEN v + LimbBase ELSE v>>
             \o BigSubBorrow(Tail(a), BigRest(b), IF v < 0 THEN 1 ELSE 0)

\* a - b for a >= b.
BigSub(a, b) == BigNorm(BigSubBorrow(a, b, 0))

RECURSIVE BigLess(_, _)
BigLess(a, b) ==
    IF Len(a) # Len(b) THEN Len(a) < Len(b)
    ELSE IF a = <<>> THEN FALSE
    ELSE IF a[Len(a)] # b[Len(b)] THEN a[Len(a)] < b[Len(b)]
    ELSE BigLess(SubSeq(a, 1, Len(a) - 1), SubSeq(b, 1, Len(b) - 1))

RECURSIVE BigDivRem(_, _)
BigDivRem(a, c) ==
    IF a = <<>> THEN [q |-> <<>>, r |-> 0]
    ELSE LET hi == BigDivRem(Tail(a), c)
             v == hi.r * LimbBase + Head(a)
         IN  [q |-> <<v \div c>> \o hi.q, r |-> v % c]

\* Quotient and remainder of a by c, 0 < c <= LimbBase.
BigDivSmall(a, c) ==
    LET d == BigDivRem(a, c) IN [q |-> BigNorm(d.q), r |-> d.r]

RECURSIVE NatBitLen(_)
NatBitLen(n) == IF n = 0 THEN 0 ELSE 1 + NatBitLen(n \div 2)

BigBitLen(a) ==
    IF a = <<>> THEN 0 ELSE LimbBits * (Len(a) - 1) + NatBitLen(a[Len(a)])

RECURSIVE BigShl(_, _)
BigShl(a, k) ==
    IF a = <<>> \/ k = 0 THEN a
    ELSE IF k >= LimbBits THEN BigShl(<<0>> \o a, k - LimbBits)
    ELSE BigMulSmall(a, 2 ^ k)

RECURSIVE BigShr(_, _)
BigShr(a, k) ==
    IF a = <<>> \/ k = 0 THEN a
    ELSE IF k >= LimbBits THEN BigShr(Tail(a), k - LimbBits)
    ELSE BigDivSmall(a, 2 ^ k).q

BigOdd(a) == BigLow(a) % 2 = 1

\* Round m / 2^s to 53 significant bits, ties to even; sticky tells that the
\* exact value lies above m / 2^s by less than one unit of m.
RoundToDouble(neg, m, s, sticky) ==
    LET k == BigBitLen(m) - MantissaBits
    IN  IF k <= 0 THEN [neg |-> neg, m |-> m, s |-> s]
        ELSE LET q == BigShr(m, k)
                 half == BigOdd(BigShr(m, k - 1))
                 below == sticky \/ BigShl(BigShr(m, k - 1), k - 1) # m
                 up == half /\ (below \/ BigOdd(q))
             IN  [neg |-> neg, m |-> IF up THEN BigAdd(q, <<1>>) ELSE q, s |-> s - k]

\* parseFloat of a decimal with eight fraction digits: the double nearest to
\* (whole * 10^8 + e8) / 10^8.
DoubleOfDecimal(day) ==
    LET n == BigAdd(BigMulSmall(BigMulSmall(BigFromNat(day.whole), 10000), 10000),
                    BigFromNat(day.e8))
        d1 == BigDivSmall(BigShl(n, 90), 10000)
        d2 == BigDivSmall(d1.q, 10000)
    IN  RoundToDouble(FALSE, d2.q, 90, d1.r # 0 \/ d2.r # 0)

\* x - 1 in doubles.
DoubleMinusOne(x) ==
    LET one == BigShl(<<1>>, x.s)
    IN  IF BigLess(x.m, one) THEN RoundToDouble(TRUE, BigSub(one, x.m), x.s, FALSE)
        ELSE RoundToDouble(FALSE, BigSub(x.m, one), x.s, FALSE)

\* x * c in doubles, for a small whole c.
DoubleTimes(x, c) == RoundToDouble(x.neg, BigMulSmall(x.m, c), x.s, FALSE)

\* t + x in doubles, for a whole t of sign tneg and magnitude tmag.
DoublePlus(tneg, tmag, x) ==
    LET t == BigShl(tmag, x.s)
    IN  IF tneg = x.neg THEN RoundToDouble(tneg, BigAdd(t, x.m), x.s, FALSE)
        ELSE IF BigLess(t, x.m) THEN RoundToDouble(x.neg, BigSub(x.m, t), x.s, FALSE)
        ELSE RoundToDouble(tneg, BigSub(t, x.m), x.s, FALSE)

\* new Date(x): the time value is cut to a whole number of milliseconds
\* toward zero; the result is days since 1970-01-01 and milliseconds into
\* the day.
DateOfDouble(x) ==
    LET a == BigShr(x.m, x.s)
        d1 == BigDivSmall(a, 10000)
        d2 == BigDivSmall(d1.q, MsPerDay \div 10000)
        days == BigToNat(d2.q)
        ms == d2.r * 10000 + d1.r
    IN  IF ~x.neg THEN [days |-> days, ms |-> ms]
        ELSE IF ms = 0 THEN [days |-> -days, ms |-> 0]
        ELSE [days |-> -days - 1, ms |-> MsPerDay - ms]

\* new Date(epochTimeMs) for epochTimeMs = startOfYear.getTime() +
\* (day - 1) * 24 * 60 * 60 * 1000 (lines 230-232), as days since 1970-01-01
\* and milliseconds into the day. The product is taken factor by factor from
\* the left, each result rounded to a double, as the expression is evaluated.
EpochDate(year, day) ==
    LET start == DayFromYear(year)
        startMs == BigMulSmall(BigMulSmall(BigFromNat(IF start < 0 THEN 0 - start ELSE start), 10000),
                               MsPerDay \div 10000)
        ms == DoubleTimes(DoubleTimes(DoubleTimes(DoubleTimes(
                  DoubleMinusOne(DoubleOfDecimal(day)), 24), 60), 60), 1000)
    IN  DateOfDouble(DoublePlus(start < 0, startMs, ms))

\* CesiumJs.JulianDate.fromDate: the Julian day number (1970-01-01T00:00Z is
\* JD 2440587.5; a Julian day starts at noon) and the milliseconds into that
\* Julian day, in UTC.
FromDate(date) ==
    LET t == date.ms + MsPerDay \div 2
    IN  [dayNumber |-> date.days + 2440587 + (t \div MsPerDay), msOfDay |-> t % MsPerDay]

\* tleEpochToJulian (lines 226-233).
TleEpochToJulian(epochStr) ==
    LET yy == ParseInt(Substring(epochStr, 0, 2))
        day == ParseFloat(SubstringFrom(epochStr, 2))
    IN  FromDate(EpochDate(FullYear(yy), day))

\* The encoded epoch YYDDD.DDDDDDDD of year yy, day-of-year doy and e8
\* hundred-millionths of a day.
EpochStr(yy, doy, e8) ==
    <<DigitChars[(yy \div 10) + 1], DigitChars[(yy % 10) + 1],
      DigitChars[(doy \div 100) + 1], DigitChars[((doy \div 10) % 10) + 1],
      DigitChars[(doy % 10) + 1], ".">>
    \o [i \in 1..8 |-> DigitChars[((e8 \div (10 ^ (8 - i))) % 10) + 1]]

\* The encoded epochs decoding is followed for: every two-digit year, the
\* first day, day 91 and the last day of a leap year, at 00:00, 06:00 and
\* 12:00, at 71.496 s and 172.8 s into the day (whole milliseconds), and at
\* two day fractions that are no whole number of milliseconds.
EpochYears == 0..99
EpochDays == {1, 91, 366}
EpochFractions == {0, 25000000, 50000000, 82750, 200000, 63248348, 99999999}

\* ---------------------------------------------------------------- elements
\* A TLE triplet is abstracted to what the derivation steps make of it:
\*   ok        all three derivation steps succeed
\*   notString tle[1] or tle[2] is not a string          (line 348)
\*   badTle    WasmElements.from_tle throws              (lines 353-362)
\*   badConst  WasmConstants.from_elements throws        (lines 369-371)
\*   badGpu    WasmGpuConsts.from_constants throws       (line 375)
\* tag tells the elements of one batch apart; epoch is tle[1].substring(18, 32)
\* (line 385).
TleAt(k, t, e) == [kind |-> k, tag |-> t, epoch |-> e]
Tle(k, t) == TleAt(k, t, EpochStr(24, 91, 50000000))

\* The element batches the TLEs prop ranges over.
Batches ==
    { <<>>,
      <<Tle("ok", 1), Tle("badTle", 2), Tle("ok", 3)>> }

\* The batches a single registration is followed for: one element that fails
\* at each of the derivation steps, at the front, in the middle and at the end.
RegBatches ==
    { <<Tle("ok", 1), Tle("badTle", 2), Tle("ok", 3)>>,
      <<Tle("badTle", 1), Tle("ok", 2)>>,
      <<Tle("ok", 1), Tle("notString", 2)>>,
      <<Tle("ok", 1), Tle("badConst", 2), Tle("ok", 3)>>,
      <<Tle("ok", 1), Tle("badGpu", 2)>>,
      <<Tle("ok", 1), Tle("ok", 2)>> }

\* One well-formed element per encoded epoch.
EpochBatches ==
    { <<TleAt("ok", 1, EpochStr(yy, doy, e8))>> :
        yy \in EpochYears, doy \in EpochDays, e8 \in EpochFractions }

\* ---------------------------------------------------------------- positions
Pos(a, b, c) == [x |-> a, y |-> b, z |-> c]
Zero == Pos(0, 0, 0)

\* flat[k] for a 0-based k.
At(flat, k) == flat[k + 1]

\* The flat result the backend returns for a set of n satellites, sample s:
\* Stride components per satellite, in kilometres, ordered by index.
FlatOf(n, s) == [k \in 1..(Stride * n) |-> 10 * s + ((k - 1) \div Stride) * 100 + ((k - 1) % Stride)]

\* Which samples the backend can answer with.
SampleIds == {1}

\* Component c (0, 1, 2: position; 3, 4, 5: velocity) of satellite j
\* (0-based) in sample s, in kilometres.
KmOf(s, j, c) == 10 * s + 100 * j + c

\* A flat result that carries positions only: 3 components per satellite, the
\* other layout the backend capability is specified with.
PositionOnlyFlat(n, s) == [k \in 1..(3 * n) |-> KmOf(s, (k - 1) \div 3, (k - 1) % 3)]

\* The samples followed when both result layouts are considered.
LayoutSampleIds == {1, 2}

\* ------------------------------------------------------------ Julian dates
JDate(d, s) == [day |-> d, sec |-> s]

\* viewer.clock.startTime / stopTime (lines 297-302); a Julian day starts at
\* noon, so midnight UTC is half a day into it.
StartTime == JDate(0, SecondsPerDay \div 2)
StopTime == JDate(SpanDays, SecondsPerDay \div 2)

\* CesiumJs.JulianDate.compare: the day-number difference when the day numbers
\* differ, else the seconds-of-day difference.
Compare(l, r) == IF l.day # r.day THEN l.day - r.day ELSE l.sec - r.sec

\* CesiumJs.JulianDate.secondsDifference.
SecondsDifference(l, r) == (l.day - r.day) * SecondsPerDay + (l.sec - r.sec)

\* The clock's own tick: currentTime advanced by d seconds.
AddSeconds(t, d) ==
    LET total == t.day * SecondsPerDay + t.sec + d
    IN  JDate(total \div SecondsPerDay, total % SecondsPerDay)

Abs(n) == IF n < 0 THEN 0 - n ELSE n

\* The latest instant the model lets the clock reach.
ClockCap == AddSeconds(StartTime, MaxClock)

\* The latest instant the clock reaches when the whole span is followed.
WideClockCap == AddSeconds(StopTime, MaxClock)

\* How far a frame can advance the clock then.
WideSteps == 0..(MaxStep + 1)

VARIABLES
    phase,        \* "init" (constructed), "mounted", "unmounted"
    viewer,       \* cesiumViewer.current is set
    clock,        \* viewer.clock.currentTime
    isLoaded,     \* isLoadedRef.current
    alive,        \* isComponentAliveRef.current
    inflight,     \* inflightRef.current
    propagator,   \* gpuPropagatorRef.current: NoPropagator, "webgpu", "webgl"
    handle,       \* registeredConstSetIdRef.current: NoHandle or a set id
    constants,    \* wasmConstantsRef.current: None or Some(the tags derived)
    metadata,     \* pointsMetadataRef.current: None or Some(sequence)
    points,       \* pointsCollectionPrimitivesRef.current (and the
                  \* collection's ref): None or Some(sequence)
    pre,          \* preAllocatedCartesianRef.current
    current,      \* currentPositionsRef.current
    target,       \* targetPositionsRef.current
    lastJDate,    \* lastJDateRef.current: None or Some(instant)
    modelMatrix,  \* modelMatrixRef.current: None or Some(matrix)
    listeners,    \* how many animate listeners scene.preRender holds
    boots,        \* one record per run of boot(): its position and closure
    calls,        \* outstanding propagate_registered_f32 calls
    polls,        \* pending setTimeout(tryUnregister, 10) timers
    nextId,       \* the backend's next set id (ids handed out so far)
    released,     \* every unregister_const_set invocation, in order
    errlog,       \* what console.error has reported
    uncaught,     \* exceptions that escaped a handler (rejected promises)
    tornDown,     \* the effect cleanup has run at least once
    last,         \* the handler that ran last, and what it did
    monitor,      \* the performance monitor: frameTimesRef.current.length,
                  \* frames measured and statistics published since the reset
    selected,     \* selectedComponent of PerformanceComparison
    left          \* the refs of the component instance left behind by a
                  \* remount that its pending callbacks still read and write

refs == <<viewer, isLoaded, alive, inflight, propagator, handle, constants>>
bufs == <<metadata, points, pre, current, target>>
rend == <<clock, lastJDate, modelMatrix>>
async == <<boots, calls, polls, listeners>>
backend == <<nextId, released>>
page == <<monitor, selected, left>>
vars == <<phase, refs, bufs, rend, async, backend, errlog, uncaught, tornDown, last, page>>

\* What `last` records: the handler that ran, whether it did what it is for
\* (started a call, called the release primitive, got a success), and the
\* handle ref it found.
Did(op, st, arg) == [op |-> op, started |-> st, arg |-> arg]


\* ------------------------------------------------------------ boot: pure parts
\* The filter of lines 347-367: an element is kept iff both data lines are
\* strings and WasmElements.from_tle does not throw.
Derivable(t) == t.kind \notin {"notString", "badTle"}
Parsed(tles) == SelectSeq(tles, Derivable)

\* constants = parsed.map(WasmConstants.from_elements) throws (lines 369-371).
ConstantsThrow(parsed) == \E i \in 1..Len(parsed) : parsed[i].kind = "badConst"
\* gpuConsts = constants.map(WasmGpuConsts.from_constants) throws (line 375).
GpuConstsThrow(parsed) == \E i \in 1..Len(parsed) : parsed[i].kind = "badGpu"

\* The tags of the constants handed to the backend, in order.
ConstantsOf(parsed) == [k \in 1..Len(parsed) |-> parsed[k].tag]

\* Mutant: idx is the element's position in the input batch (tags number the
\* input positions from 1).
MetadataOfInputOrder(parsed) ==
    [k \in 1..Len(parsed) |->
        [tag |-> parsed[k].tag, epoch |-> TleEpochToJulian(parsed[k].epoch),
         idx |-> parsed[k].tag - 1]]

\* metadata.push({..., TLEEpochJulian, idx: idx++}) for each parsed element
\* (lines 385-386, 400-405).
MetadataOf(parsed) ==
    [k \in 1..Len(parsed) |->
        [tag |-> parsed[k].tag, epoch |-> TleEpochToJulian(parsed[k].epoch),
         idx |-> k - 1]]

\* Mutant: the current buffer is sized from the input batch, not from the
\* elements that survived the filter.
CurrentOfUnfiltered(tles) == [k \in 1..Len(tles) |-> Zero]

\* curr.push / next.push of a zero position per parsed element (lines 391-392).
CurrentOf(tles) == [k \in 1..Len(Parsed(tles)) |-> Zero]
TargetOf(tles) == [k \in 1..Len(Parsed(tles)) |-> Zero]

\* preAllocated.push(new Cartesian3(0, 0, 0)) per parsed element, made by boot b
\* (lines 389-390); id is the object's identity.
PreAllocatedOf(b, parsed) == [k \in 1..Len(parsed) |-> [id |-> <<b, k - 1>>, x |-> 0, y |-> 0, z |-> 0]]

\* points.add({position: pre, ...}) per parsed element (lines 394-398): the
\* point primitive keeps the position's components.
PointsOf(parsed) == [k \in 1..Len(parsed) |-> Zero]

\* The guard of boot (line 317), v being cesiumViewer.current at that time.
BootGuardPasses(v, tles) == ~isLoaded /\ v /\ Len(tles) # 0

\* A new run of boot(), up to its first await (lines 316-321). pc is where
\* the run stands, settled how the promise boot() returned has settled, ticks
\* the pending requestAnimationFrame(propagateLoop) callbacks of its loop.
NewBoot(v, tles) ==
    IF BootGuardPasses(v, tles)
    THEN [pc |-> "wasmInit", settled |-> "pending", tles |-> tles, ticks |-> 0]
    ELSE [pc |-> "skipped", settled |-> "fulfilled", tles |-> tles, ticks |-> 0]

\* ------------------------------------------------------------ cleanup: parts
\* Mutant: the cleanup does not test the handle ref for null.
CleanupGuardIgnoringHandle == propagator # NoPropagator

\* The guard of the cleanup's release branch (lines 556-559).
CleanupGuard == propagator # NoPropagator /\ handle # NoHandle

\* Mutant: tryUnregister releases without looking at the in-flight counter.
MayUnregisterAlways == TRUE

\* tryUnregister's test (line 561).
MayUnregister == inflight = 0

\* Mutant: the handle ref is cleared at the end of the try block, so a release
\* that throws leaves it set.
TryUnregisterKeepingOnThrow(ok, pendingPolls) ==
    IF MayUnregister
    THEN /\ released' = Append(released, [arg |-> handle, ok |-> ok])
         /\ handle' = IF ok THEN NoHandle ELSE handle
         /\ errlog' = IF ok THEN errlog ELSE errlog \cup {"unregister"}
         /\ polls' = pendingPolls
    ELSE /\ polls' = pendingPolls + 1
         /\ UNCHANGED <<released, handle, errlog>>

\* One run of tryUnregister (lines 560-574); ok tells whether
\* unregister_const_set returns or throws. Shared by the cleanup and the timer.
TryUnregister(ok, pendingPolls) ==
    IF MayUnregister
    THEN /\ released' = Append(released, [arg |-> handle, ok |-> ok])
         /\ handle' = NoHandle
         /\ errlog' = IF ok THEN errlog ELSE errlog \cup {"unregister"}
         /\ polls' = pendingPolls
    ELSE /\ polls' = pendingPolls + 1
         /\ UNCHANGED <<released, handle, errlog>>

\* The effect cleanup (lines 552-580).
Cleanup(ok) ==
    /\ alive' = FALSE
    /\ tornDown' = TRUE
    /\ IF CleanupGuard
       THEN TryUnregister(ok, polls)
       ELSE UNCHANGED <<released, handle, errlog, polls>>

\* ------------------------------------------------------ performance monitor
\* frameTimesRef.current = [] and the statistics reset (lines 136-148). The
\* window of frame times is followed by its length.
MonitorReset == [window |-> 0, measured |-> 0, published |-> 0]

\* push(frameTime), then shift() when the length exceeds the cap (lines 85-88).
WindowAfterPush(len) == IF len + 1 > WindowCap THEN (len + 1) - 1 ELSE len + 1

\* The statistics update test (lines 91-94).
StatsDue(len) == len % StatsPeriod = 0 /\ len > 0

\* type ComponentType (PerformanceComparison.tsx line 16).
ComponentTypes == {"CPU", "GPU"}

\* A remount gives the component new refs, a new viewer and new closures; the
\* callbacks of the instance before it (its boot, its calls, its timers) keep
\* running on the old refs. Of those the callbacks read the in-flight
\* counter, the handle, the propagator and the length of the target buffer;
\* boots tells how many leading entries of `boots` belong to that instance,
\* polls how many of the pending timers. Its liveness flag is false: an
\* instance is left behind by its cleanup.
NoLeft == [boots |-> 0, polls |-> 0, inflight |-> 0, handle |-> NoHandle,
           propagator |-> NoPropagator, targets |-> 0]

\* Boot run b belongs to the instance that is mounted now (or was last).
IsLive(b) == b > left.boots

\* Nothing of the instance left behind is pending any more.
LeftSettled ==
    /\ left.polls = 0
    /\ \A b \in 1..left.boots :
           boots[b].ticks = 0 /\ boots[b].pc \notin {"wasmInit", "newWebGpu", "newWebGl"}
    /\ \A i \in 1..Len(calls) : IsLive(calls[i].boot)

\* ------------------------------------------------------------------ Init
Init ==
    /\ phase = "init"
    /\ viewer = FALSE
    /\ clock = StartTime   \* no clock exists before the viewer; never read
    /\ isLoaded = FALSE
    /\ alive = TRUE
    /\ inflight = 0
    /\ propagator = NoPropagator
    /\ handle = NoHandle
    /\ constants = None
    /\ metadata = None
    /\ points = None
    /\ pre = <<>>
    /\ current = <<>>
    /\ target = <<>>
    /\ lastJDate = None
    /\ modelMatrix = None
    /\ listeners = 0
    /\ boots = <<>>
    /\ calls = <<>>
    /\ polls = 0
    /\ nextId = 0
    /\ released = <<>>
    /\ errlog = {}
    /\ uncaught = {}
    /\ tornDown = FALSE
    /\ last = Did("init", FALSE, NoHandle)
    /\ monitor = MonitorReset
    /\ selected = "GPU"
    /\ left = NoLeft

\* ------------------------------------------------------------ effect actions
\* First commit: the viewer effect (lines 270-312) then the boot effect's
\* setup (lines 315-550), which runs boot() up to its first await.
Mount(tles) ==
    /\ phase = "init"
    /\ selected = "GPU"
    /\ phase' = "mounted"
    /\ viewer' = TRUE
    /\ clock' = StartTime
    /\ boots' = Append(boots, NewBoot(TRUE, tles))
    /\ last' = Did("mount", FALSE, NoHandle)
    /\ UNCHANGED <<isLoaded, alive, inflight, propagator, handle, constants>>
    /\ UNCHANGED <<bufs, lastJDate, modelMatrix, calls, polls, listeners>>
    /\ UNCHANGED <<backend, errlog, uncaught, tornDown>>
    /\ UNCHANGED page

\* A dependency changed (or the effect is re-run): React runs the cleanup and
\* then the setup with the new TLEs, back to back.
Rerun(tles, ok) ==
    /\ phase = "mounted"
    /\ Len(boots) < MaxSetups
    /\ Cleanup(ok)
    /\ boots' = Append(boots, NewBoot(viewer, tles))
    /\ last' = Did("rerun", FALSE, handle)
    /\ UNCHANGED <<phase, viewer, isLoaded, inflight, propagator, constants>>
    /\ UNCHANGED <<bufs, rend, calls, listeners, nextId, uncaught>>
    /\ UNCHANGED page

\* The component unmounts: the cleanup runs and no setup follows.
Unmount(ok) ==
    /\ phase = "mounted"
    /\ phase' = "unmounted"
    /\ Cleanup(ok)
    /\ last' = Did("unmount", FALSE, handle)
    /\ UNCHANGED <<viewer, isLoaded, inflight, propagator, constants>>
    /\ UNCHANGED <<bufs, rend, boots, calls, listeners, nextId, uncaught>>
    /\ UNCHANGED page

\* setTimeout(tryUnregister, 10) fires (lines 560-574).
PollFire(ok) ==
    /\ polls > left.polls
    /\ TryUnregister(ok, polls - 1)
    /\ last' = Did("poll", MayUnregister, handle)
    /\ UNCHANGED <<phase, viewer, isLoaded, alive, inflight, propagator, constants>>
    /\ UNCHANGED <<bufs, rend, boots, calls, listeners, nextId, uncaught, tornDown>>
    /\ UNCHANGED page


\* ------------------------------------------------------------ boot: actions
SetBoot(b, pc, settled, ticks) ==
    [boots EXCEPT ![b].pc = pc, ![b].settled = settled, ![b].ticks = ticks]

\* The rest of boot once a propagator exists (lines 332-547), run to its end
\* in one task: element derivation, registration, buffers, listener, kick.
BootRest(b, kind) ==
    LET parsed == Parsed(boots[b].tles) IN
    /\ propagator' = kind
    /\ IF ConstantsThrow(parsed)
       THEN /\ boots' = SetBoot(b, "threw", "rejected", 0)
            /\ uncaught' = uncaught \cup {"boot"}
            /\ UNCHANGED <<constants, handle, nextId, isLoaded, listeners, bufs>>
       ELSE IF GpuConstsThrow(parsed)
       THEN /\ constants' = Some(ConstantsOf(parsed))
            /\ boots' = SetBoot(b, "threw", "rejected", 0)
            /\ uncaught' = uncaught \cup {"boot"}
            /\ UNCHANGED <<handle, nextId, isLoaded, listeners, bufs>>
       ELSE /\ constants' = Some(ConstantsOf(parsed))
            /\ handle' = nextId
            /\ nextId' = nextId + 1
            /\ metadata' = Some(MetadataOf(parsed))
            /\ points' = Some(PointsOf(parsed))
            /\ pre' = PreAllocatedOf(b, parsed)
            /\ current' = CurrentOf(boots[b].tles)
            /\ target' = TargetOf(boots[b].tles)
            /\ listeners' = listeners + 1
            /\ boots' = SetBoot(b, "started", "fulfilled", 1)
            /\ isLoaded' = TRUE
            /\ UNCHANGED uncaught
    /\ UNCHANGED <<phase, viewer, alive, inflight, rend, calls, polls>>
    /\ UNCHANGED <<released, errlog, tornDown>>

\* Mutant: the catch rethrows instead of returning.
SettledRejected == "rejected"

\* How boot's promise settles when initialisation failed: the catch returns
\* (line 329).
SettledOnInitFailure == "fulfilled"

\* boot's catch (lines 327-330): log and return.
BootInitFails(b) ==
    /\ boots' = SetBoot(b, "initFailed", SettledOnInitFailure, 0)
    /\ errlog' = errlog \cup {"init"}
    /\ uncaught' = IF SettledOnInitFailure = "rejected"
                   THEN uncaught \cup {"boot"} ELSE uncaught
    /\ UNCHANGED <<phase, refs, bufs, rend, calls, polls, listeners>>
    /\ UNCHANGED <<backend, tornDown>>

\* await wasmInit() settles (line 321).
WasmInitResolve(b, ok) ==
    /\ b \in 1..Len(boots)
    /\ IsLive(b)
    /\ boots[b].pc = "wasmInit"
    /\ last' = Did("wasmInit", ok, handle)
    /\ IF ok
       THEN /\ boots' = SetBoot(b, "newWebGpu", "pending", 0)
            /\ UNCHANGED <<phase, refs, bufs, rend, calls, polls, listeners>>
            /\ UNCHANGED <<backend, errlog, uncaught, tornDown>>
       ELSE BootInitFails(b)
    /\ UNCHANGED page

\* await GpuPropagator.new_for_web() settles (lines 322-326).
NewWebGpuResolve(b, ok) ==
    /\ b \in 1..Len(boots)
    /\ IsLive(b)
    /\ boots[b].pc = "newWebGpu"
    /\ last' = Did("newWebGpu", ok, handle)
    /\ IF ok
       THEN BootRest(b, "webgpu")
       ELSE /\ boots' = SetBoot(b, "newWebGl", "pending", 0)
            /\ UNCHANGED <<phase, refs, bufs, rend, calls, polls, listeners>>
            /\ UNCHANGED <<backend, errlog, uncaught, tornDown>>
    /\ UNCHANGED page

\* await GpuPropagator.new_for_web_gl() settles (line 325).
NewWebGlResolve(b, ok) ==
    /\ b \in 1..Len(boots)
    /\ IsLive(b)
    /\ boots[b].pc = "newWebGl"
    /\ last' = Did("newWebGl", ok, handle)
    /\ IF ok
       THEN BootRest(b, "webgl")
       ELSE BootInitFails(b)
    /\ UNCHANGED page

\* ------------------------------------------------------------ propagateLoop
\* Mutant: a tick does not test the liveness flag.
MayStartIgnoringAlive ==
    /\ propagator # NoPropagator
    /\ handle # NoHandle
    /\ Len(Val(metadata)) # 0

\* Mutant: a tick tests neither the liveness flag nor the handle.
MayStartUnguarded == Len(Val(metadata)) # 0

\* The early returns of a tick (lines 424-434) are all passed.
MayStart ==
    /\ alive
    /\ propagator # NoPropagator
    /\ handle # NoHandle
    /\ Len(Val(metadata)) # 0

\* The defer test (line 435).
Defers == inflight # 0

\* A requestAnimationFrame(propagateLoop) callback of boot b's loop runs, up
\* to its await (lines 423-455).
Tick(b) ==
    /\ b \in 1..Len(boots)
    /\ IsLive(b)
    /\ boots[b].ticks > 0
    /\ IF ~MayStart
       THEN /\ boots' = [boots EXCEPT ![b].ticks = @ - 1]
            /\ last' = Did("tick", FALSE, handle)
            /\ UNCHANGED <<inflight, calls>>
       ELSE IF Defers
       THEN /\ boots' = [boots EXCEPT ![b].ticks = (@ - 1) + 1]
            /\ last' = Did("defer", FALSE, handle)
            /\ UNCHANGED <<inflight, calls>>
       ELSE /\ inflight' = inflight + 1
            /\ calls' = Append(calls, [boot |-> b, handle |-> handle,
                                       n |-> Len(Val(metadata))])
            /\ boots' = [boots EXCEPT ![b].ticks = @ - 1]
            /\ last' = Did("tick", TRUE, handle)
    /\ UNCHANGED <<phase, viewer, isLoaded, alive, propagator, handle, constants>>
    /\ UNCHANGED <<bufs, rend, polls, listeners, backend, errlog, uncaught, tornDown>>
    /\ UNCHANGED page

\* Mutant: the copy yields after each entry, so a settled call has written
\* one entry when the next frame runs.
WriteFromOneEntry(tgt, flat, i) ==
    IF i * Stride >= Len(flat) THEN [tgt |-> tgt, threw |-> FALSE]
    ELSE IF i + 1 > Len(tgt) THEN [tgt |-> tgt, threw |-> TRUE]
    ELSE [tgt |-> [tgt EXCEPT ![i + 1] =
                      Pos(At(flat, i * Stride) * KmToM,
                          At(flat, i * Stride + 1) * KmToM,
                          At(flat, i * Stride + 2) * KmToM)],
          threw |-> FALSE]

\* Mutant: the copy stores the kilometres it is given.
RECURSIVE WriteFromKm(_, _, _)
WriteFromKm(tgt, flat, i) ==
    IF i * Stride >= Len(flat) THEN [tgt |-> tgt, threw |-> FALSE]
    ELSE IF i + 1 > Len(tgt) THEN [tgt |-> tgt, threw |-> TRUE]
    ELSE WriteFromKm([tgt EXCEPT ![i + 1] =
                          Pos(At(flat, i * Stride), At(flat, i * Stride + 1),
                              At(flat, i * Stride + 2))],
                     flat, i + 1)

\* The copy into the target buffer (lines 458-465), from loop index i on:
\* N = flat.length / 6, and tgt[i] of a missing entry throws a TypeError.
RECURSIVE WriteFrom(_, _, _)
WriteFrom(tgt, flat, i) ==
    IF i * Stride >= Len(flat) THEN [tgt |-> tgt, threw |-> FALSE]
    ELSE IF i + 1 > Len(tgt) THEN [tgt |-> tgt, threw |-> TRUE]
    ELSE WriteFrom([tgt EXCEPT ![i + 1] =
                        Pos(At(flat, i * Stride) * KmToM,
                            At(flat, i * Stride + 1) * KmToM,
                            At(flat, i * Stride + 2) * KmToM)],
                   flat, i + 1)

\* What the try block leaves in the target buffer for a settled call.
TargetAfterCall(tgt, res) ==
    IF res.ok THEN WriteFrom(tgt, res.flat, 0) ELSE [tgt |-> tgt, threw |-> FALSE]

\* Mutant: the counter is decremented in the catch block and in finally.
InflightTwiceOnFailure(n, res) == IF res.ok THEN n - 1 ELSE n - 2

\* Mutant: the counter is decremented at the end of the try block only.
InflightKeptOnFailure(n, res) == IF res.ok THEN n - 1 ELSE n

\* Mutant: the next tick is requested at the end of the try block and again
\* in finally.
TicksTwiceOnSuccess(t, res) == IF res.ok THEN t + 2 ELSE t + 1

\* Mutant: the next tick is requested at the end of the try block only.
TicksOnlyOnSuccess(t, res) == IF res.ok THEN t + 1 ELSE t

\* The finally block (lines 468-471): the counter, and the next tick.
InflightAfterCall(n, res) == n - 1
TicksAfterCall(t, res) == t + 1

\* How a propagate call for n satellites can settle.
Results(n) ==
    {[ok |-> FALSE, flat |-> <<>>, sample |-> 0, per |-> 0]}
    \cup {[ok |-> TRUE, flat |-> FlatOf(n, s), sample |-> s, per |-> Stride] : s \in SampleIds}

\* How it can settle when the backend may answer in either layout, positions
\* and velocities or positions only.
LayoutResults(n) ==
    {[ok |-> FALSE, flat |-> <<>>, sample |-> 0, per |-> 0]}
    \cup {[ok |-> TRUE, flat |-> FlatOf(n, s), sample |-> s, per |-> Stride] : s \in LayoutSampleIds}
    \cup {[ok |-> TRUE, flat |-> PositionOnlyFlat(n, s), sample |-> s, per |-> 3] : s \in LayoutSampleIds}

RemoveAt(seq, i) == [k \in 1..(Len(seq) - 1) |-> IF k < i THEN seq[k] ELSE seq[k + 1]]

\* Mutant: curr and next hold the same position objects, so the copy into the
\* target buffer shows in the current buffer.
CurrentAliasedToTarget(cur, tgt) == tgt

\* What the copy into the target buffer leaves in the current buffer: curr and
\* next are built from distinct objects (lines 391-392), so nothing.
CurrentAfterCall(cur, tgt) == cur

\* An outstanding propagate call settles and propagateLoop resumes
\* (lines 452-471).
Settle(i, res) ==
    /\ i \in 1..Len(calls)
    /\ IsLive(calls[i].boot)
    /\ LET w == TargetAfterCall(target, res) IN
       /\ target' = w.tgt
       /\ current' = CurrentAfterCall(current, w.tgt)
       /\ errlog' = IF ~res.ok \/ w.threw THEN errlog \cup {"propagate"} ELSE errlog
    /\ inflight' = InflightAfterCall(inflight, res)
    /\ boots' = [boots EXCEPT ![calls[i].boot].ticks = TicksAfterCall(@, res)]
    /\ calls' = RemoveAt(calls, i)
    /\ last' = Did("resolve", res.ok, handle)
    /\ UNCHANGED <<phase, viewer, isLoaded, alive, propagator, handle, constants>>
    /\ UNCHANGED <<metadata, points, pre, rend, polls, listeners>>
    /\ UNCHANGED <<backend, uncaught, tornDown>>
    /\ UNCHANGED page

Resolve(i, res) == res \in Results(calls[i].n) /\ Settle(i, res)

\* The same, the backend answering in either layout.
ResolveLayout(i, res) == res \in LayoutResults(calls[i].n) /\ Settle(i, res)

\* ------------------------------------------------------------------ animate
\* timeLimit (lines 417-420).
TimeLimit == Compare(StopTime, StartTime)

\* The transform computed for an instant (lines 511-515).
MatrixAt(now) == [at |-> now]

\* The wraparound test (lines 486-489).
Wraps(now) == Abs(Compare(now, StopTime)) > TimeLimit

\* Mutant: the transform is recomputed from a difference of one second on.
RecomputesFromOneSecond(now, lastJ) == Abs(SecondsDifference(now, lastJ)) >= 1

\* The rate limit of the transform (line 505).
Recomputes(now, lastJ) == Abs(SecondsDifference(now, lastJ)) > 1

\* Mutant: the move loop stops one point short.
MoveCountSkippingLast(r) == Len(Val(r.points)) - 1

\* How many points the move loop visits: i < pts.length (line 528).
MoveCount(r) == Len(Val(r.points))

\* One run of an animate listener (lines 475-541) on the render state
\* r = [clock, lastJDate, modelMatrix, current, pre, points].
Animate(r) ==
    IF metadata = None \/ r.points = None THEN r
    ELSE IF Wraps(r.clock) THEN [r EXCEPT !.clock = StartTime]
    ELSE
      LET now == r.clock
          lastJ0 == IF r.lastJDate = None THEN now ELSE Val(r.lastJDate)
          rec == Recomputes(now, lastJ0)
          n == MoveCount(r)
      IN  [clock |-> now,
           lastJDate |-> Some(IF rec THEN now ELSE lastJ0),
           modelMatrix |-> IF rec THEN Some(MatrixAt(now)) ELSE r.modelMatrix,
           current |-> [i \in 1..Len(r.current) |->
                           IF i <= n THEN target[i] ELSE r.current[i]],
           pre |-> [i \in 1..Len(r.pre) |->
                       IF i <= n
                       THEN [id |-> r.pre[i].id, x |-> target[i].x,
                             y |-> target[i].y, z |-> target[i].z]
                       ELSE r.pre[i]],
           points |-> Some([i \in 1..Len(Val(r.points)) |->
                              IF i <= n THEN target[i] ELSE Val(r.points)[i]])]

RECURSIVE AnimateTimes(_, _)
AnimateTimes(k, r) == IF k = 0 THEN r ELSE AnimateTimes(k - 1, Animate(r))

\* A render frame: the clock ticks by d seconds, then scene.preRender raises
\* every animate listener added so far.
Frame(d) ==
    /\ viewer
    /\ LET r == AnimateTimes(listeners,
                   [clock |-> AddSeconds(clock, d), lastJDate |-> lastJDate,
                    modelMatrix |-> modelMatrix, current |-> current,
                    pre |-> pre, points |-> points])
       IN /\ clock' = r.clock
          /\ lastJDate' = r.lastJDate
          /\ modelMatrix' = r.modelMatrix
          /\ current' = r.current
          /\ pre' = r.pre
          /\ points' = r.points
    /\ last' = Did("frame", FALSE, handle)
    /\ UNCHANGED <<phase, refs, metadata, target, async, backend, errlog>>
    /\ UNCHANGED <<uncaught, tornDown>>
    /\ UNCHANGED page

\* A render frame while the clock is near its start.
RenderFrame(d) ==
    /\ SecondsDifference(AddSeconds(clock, d), ClockCap) <= 0
    /\ Frame(d)

\* A render frame of a session followed over the whole start-to-stop span and
\* a little beyond.
RenderFrameWide(d) ==
    /\ SecondsDifference(AddSeconds(clock, d), WideClockCap) <= 0
    /\ Frame(d)

\* ------------------------------------------- the instance left behind
\* tryUnregister of the instance left behind fires (lines 560-574).
PollFireLeft(ok) ==
    /\ left.polls > 0
    /\ IF left.inflight = 0
       THEN /\ released' = Append(released, [arg |-> left.handle, ok |-> ok])
            /\ left' = [left EXCEPT !.handle = NoHandle, !.polls = @ - 1]
            /\ errlog' = IF ok THEN errlog ELSE errlog \cup {"unregister"}
            /\ polls' = polls - 1
       ELSE UNCHANGED <<released, left, errlog, polls>>
    /\ last' = Did("poll", left.inflight = 0, left.handle)
    /\ UNCHANGED <<phase, refs, bufs, rend, boots, calls, listeners, nextId>>
    /\ UNCHANGED <<uncaught, tornDown, monitor, selected>>

\* The rest of its boot (lines 332-547): what it stores goes to the old refs,
\* the set it registers is the old instance's.
BootRestLeft(b, kind) ==
    LET parsed == Parsed(boots[b].tles) IN
    /\ IF ConstantsThrow(parsed) \/ GpuConstsThrow(parsed)
       THEN /\ boots' = SetBoot(b, "threw", "rejected", 0)
            /\ uncaught' = uncaught \cup {"boot"}
            /\ left' = [left EXCEPT !.propagator = kind]
            /\ UNCHANGED nextId
       ELSE /\ left' = [left EXCEPT !.propagator = kind, !.handle = nextId,
                                    !.targets = Len(TargetOf(boots[b].tles))]
            /\ nextId' = nextId + 1
            /\ boots' = SetBoot(b, "started", "fulfilled", 1)
            /\ UNCHANGED uncaught
    /\ UNCHANGED <<phase, refs, bufs, rend, calls, polls, listeners>>
    /\ UNCHANGED <<released, errlog, tornDown>>

\* Its await wasmInit() settles (line 321).
WasmInitResolveLeft(b, ok) ==
    /\ b \in 1..left.boots
    /\ boots[b].pc = "wasmInit"
    /\ last' = Did("wasmInit", ok, left.handle)
    /\ IF ok
       THEN /\ boots' = SetBoot(b, "newWebGpu", "pending", 0)
            /\ UNCHANGED <<phase, refs, bufs, rend, calls, polls, listeners>>
            /\ UNCHANGED <<backend, errlog, uncaught, tornDown>>
       ELSE BootInitFails(b)
    /\ UNCHANGED page

\* Its await GpuPropagator.new_for_web() settles (lines 322-326).
NewWebGpuResolveLeft(b, ok) ==
    /\ b \in 1..left.boots
    /\ boots[b].pc = "newWebGpu"
    /\ last' = Did("newWebGpu", ok, left.handle)
    /\ IF ok
       THEN BootRestLeft(b, "webgpu")
       ELSE /\ boots' = SetBoot(b, "newWebGl", "pending", 0)
            /\ UNCHANGED <<phase, refs, bufs, rend, calls, polls, listeners>>
            /\ UNCHANGED <<backend, errlog, uncaught, tornDown, left>>
    /\ UNCHANGED <<monitor, selected>>

\* Its await GpuPropagator.new_for_web_gl() settles (line 325).
NewWebGlResolveLeft(b, ok) ==
    /\ b \in 1..left.boots
    /\ boots[b].pc = "newWebGl"
    /\ last' = Did("newWebGl", ok, left.handle)
    /\ IF ok
       THEN BootRestLeft(b, "webgl")
       ELSE BootInitFails(b) /\ UNCHANGED left
    /\ UNCHANGED <<monitor, selected>>

\* A propagateLoop callback of its loop runs (lines 423-455): the liveness
\* flag of the old refs is false, so it returns at line 424.
TickLeft(b) ==
    /\ b \in 1..left.boots
    /\ boots[b].ticks > 0
    /\ boots' = [boots EXCEPT ![b].ticks = @ - 1]
    /\ last' = Did("tick", FALSE, left.handle)
    /\ UNCHANGED <<phase, refs, bufs, rend, calls, polls, listeners>>
    /\ UNCHANGED <<backend, errlog, uncaught, tornDown, page>>

\* One of its outstanding calls settles (lines 452-471): the copy goes to the
\* old target buffer, the finally block to the old counter.
SettleLeft(i, res) ==
    /\ i \in 1..Len(calls)
    /\ ~IsLive(calls[i].boot)
    /\ res \in Results(calls[i].n)
    /\ LET w == TargetAfterCall([k \in 1..left.targets |-> Zero], res) IN
       errlog' = IF ~res.ok \/ w.threw THEN errlog \cup {"propagate"} ELSE errlog
    /\ left' = [left EXCEPT !.inflight = InflightAfterCall(@, res)]
    /\ boots' = [boots EXCEPT ![calls[i].boot].ticks = TicksAfterCall(@, res)]
    /\ calls' = RemoveAt(calls, i)
    /\ last' = Did("resolve", res.ok, left.handle)
    /\ UNCHANGED <<phase, refs, bufs, rend, polls, listeners>>
    /\ UNCHANGED <<backend, uncaught, tornDown, monitor, selected>>

\* ------------------------------------------------------ monitor: actions
\* One requestAnimationFrame(measurePerformance) callback (lines 79-124).
MeasurePerformance ==
    /\ monitor.measured < MaxFrames
    /\ LET len == WindowAfterPush(monitor.window) IN
       /\ monitor' = [window |-> len,
                      measured |-> monitor.measured + 1,
                      published |-> IF StatsDue(len) THEN monitor.published + 1
                                    ELSE monitor.published]
       /\ last' = Did("measure", StatsDue(len), NoHandle)
    /\ UNCHANGED <<phase, refs, bufs, rend, async, backend, errlog, uncaught, tornDown>>
    /\ UNCHANGED <<selected, left>>

\* renderComponent stops returning CesiumComponentGPU (lines 150-161): the
\* component unmounts and its effect cleanup runs (part_000 lines 552-580).
UnmountGpu(ok) ==
    /\ phase' = "unmounted"
    /\ Cleanup(ok)
    /\ UNCHANGED <<viewer, isLoaded, inflight, propagator, constants>>
    /\ UNCHANGED <<bufs, rend, boots, calls, listeners, nextId, uncaught, left>>

\* The run of boot() of a first commit: isLoadedRef is false and the viewer
\* effect has just set the viewer (line 317).
FirstBoot(tles) ==
    IF Len(tles) # 0
    THEN [pc |-> "wasmInit", settled |-> "pending", tles |-> tles, ticks |-> 0]
    ELSE [pc |-> "skipped", settled |-> "fulfilled", tles |-> tles, ticks |-> 0]

\* renderComponent returns CesiumComponentGPU again: a new instance mounts,
\* with refs at their initial values (lines 240-268), a new viewer (lines
\* 270-312) and a new run of boot(). The instance before it, if any, is left
\* behind with whatever it has pending; one such instance is followed at a
\* time.
MountFresh(tles) ==
    /\ LeftSettled
    /\ Len(boots) < MaxSetups
    /\ phase' = "mounted"
    /\ viewer' = TRUE
    /\ clock' = StartTime
    /\ isLoaded' = FALSE
    /\ alive' = TRUE
    /\ inflight' = 0
    /\ propagator' = NoPropagator
    /\ handle' = NoHandle
    /\ constants' = None
    /\ metadata' = None
    /\ points' = None
    /\ pre' = <<>>
    /\ current' = <<>>
    /\ target' = <<>>
    /\ lastJDate' = None
    /\ modelMatrix' = None
    /\ listeners' = 0
    /\ boots' = Append(boots, FirstBoot(tles))
    /\ left' = [boots |-> Len(boots), polls |-> polls, inflight |-> inflight,
                handle |-> handle, propagator |-> propagator,
                targets |-> Len(target)]
    /\ UNCHANGED <<calls, polls, backend, errlog, uncaught, tornDown>>

\* setSelectedComponent(c) with c other than the selection (line 249), and the
\* commit that follows: the reset effect runs (lines 136-148) and
\* renderComponent (lines 150-161, placed at line 357) swaps the component.
\* tles is the TLEs prop at that time, ok whether unregister_const_set
\* returns, loaded whether CesiumJs is set (it is once a component has been
\* mounted).
SelectComponent(c, tles, ok, loaded) ==
    /\ c \in ComponentTypes
    /\ c # selected
    /\ phase # "init" => loaded
    /\ selected' = c
    /\ monitor' = MonitorReset
    /\ last' = Did("select", FALSE, NoHandle)
    /\ IF c = "CPU" /\ phase = "mounted" THEN UnmountGpu(ok)
       ELSE IF c = "GPU" /\ loaded THEN MountFresh(tles)
       ELSE UNCHANGED <<phase, refs, bufs, rend, async, backend, errlog,
                        uncaught, tornDown, left>>

\* ------------------------------------------------------------ specification
Next ==
    \/ \E tles \in Batches : Mount(tles)
    \/ \E tles \in Batches, ok \in BOOLEAN : Rerun(tles, ok)
    \/ \E ok \in BOOLEAN : Unmount(ok)
    \/ \E ok \in BOOLEAN : PollFire(ok)
    \/ \E b \in 1..MaxSetups, ok \in BOOLEAN : WasmInitResolve(b, ok)
    \/ \E b \in 1..MaxSetups, ok \in BOOLEAN : NewWebGpuResolve(b, ok)
    \/ \E b \in 1..MaxSetups, ok \in BOOLEAN : NewWebGlResolve(b, ok)
    \/ \E b \in 1..MaxSetups : Tick(b)
    \/ \E i \in 1..Len(calls) : \E res \in Results(calls[i].n) : Resolve(i, res)
    \/ \E d \in 0..MaxStep : RenderFrame(d)

Spec == Init /\ [][Next]_vars


\* The same behaviours, where every outstanding backend call eventually
\* settles and every pending timer eventually fires.
FairSpec ==
    /\ Spec
    /\ WF_vars(\E i \in 1..Len(calls) : \E res \in Results(calls[i].n) : Resolve(i, res))
    /\ WF_vars(\E ok \in BOOLEAN : PollFire(ok))

\* One mount that is never torn down, over the batches of RegBatches: the
\* registration of one batch, then its propagation ticks and render frames.
RegNext ==
    \/ \E tles \in RegBatches : Mount(tles)
    \/ \E ok \in BOOLEAN : WasmInitResolve(1, ok)
    \/ \E ok \in BOOLEAN : NewWebGpuResolve(1, ok)
    \/ \E ok \in BOOLEAN : NewWebGlResolve(1, ok)
    \/ Tick(1)
    \/ \E i \in 1..Len(calls) : \E res \in Results(calls[i].n) : Resolve(i, res)
    \/ \E d \in 0..MaxStep : RenderFrame(d)

RegSpec == Init /\ [][RegNext]_vars

\* One mount per encoded epoch, followed until boot has decoded it.
EpochNext ==
    \/ \E tles \in EpochBatches : Mount(tles)
    \/ \E ok \in BOOLEAN : WasmInitResolve(1, ok)
    \/ \E ok \in BOOLEAN : NewWebGpuResolve(1, ok)
    \/ \E ok \in BOOLEAN : NewWebGlResolve(1, ok)

EpochSpec == Init /\ [][EpochNext]_vars

\* The batches the result layouts are followed for: one satellite and two.
LayoutBatches == {<<Tle("ok", 1)>>} \cup Batches

\* One mount that is never torn down, with a backend that answers in either
\* result layout.
LayoutNext ==
    \/ \E tles \in LayoutBatches : Mount(tles)
    \/ \E ok \in BOOLEAN : WasmInitResolve(1, ok)
    \/ \E ok \in BOOLEAN : NewWebGpuResolve(1, ok)
    \/ \E ok \in BOOLEAN : NewWebGlResolve(1, ok)
    \/ Tick(1)
    \/ \E i \in 1..Len(calls) : \E res \in LayoutResults(calls[i].n) : ResolveLayout(i, res)
    \/ \E d \in 0..MaxStep : RenderFrame(d)

LayoutSpec == Init /\ [][LayoutNext]_vars

\* One mount that is never torn down, its clock followed from the start bound
\* to past the stop bound.
RenderNext ==
    \/ \E tles \in Batches : Mount(tles)
    \/ \E ok \in BOOLEAN : WasmInitResolve(1, ok)
    \/ \E ok \in BOOLEAN : NewWebGpuResolve(1, ok)
    \/ \E ok \in BOOLEAN : NewWebGlResolve(1, ok)
    \/ Tick(1)
    \/ \E i \in 1..Len(calls) : \E res \in Results(calls[i].n) : Resolve(i, res)
    \/ \E d \in WideSteps : RenderFrameWide(d)

RenderSpec == Init /\ [][RenderNext]_vars

\* The page: one batch of elements, the monitor and the component selector.
\* The backend initialises and its release returns; the WebGL fallback is
\* followed for the instance left behind.
MonitorBatch == <<Tle("ok", 1)>>

MonitorNext ==
    \/ MeasurePerformance
    \/ \E c \in ComponentTypes, loaded \in BOOLEAN :
           SelectComponent(c, MonitorBatch, TRUE, loaded)
    \/ Mount(MonitorBatch)
    \/ \E b \in 1..MaxSetups : WasmInitResolve(b, TRUE)
    \/ \E b \in 1..MaxSetups : NewWebGpuResolve(b, TRUE)
    \/ \E b \in 1..MaxSetups : Tick(b)
    \/ \E i \in 1..Len(calls) : \E res \in Results(calls[i].n) : Resolve(i, res)
    \/ PollFire(TRUE)
    \/ \E b \in 1..MaxSetups : WasmInitResolveLeft(b, TRUE)
    \/ \E b \in 1..MaxSetups, ok \in BOOLEAN : NewWebGpuResolveLeft(b, ok)
    \/ \E b \in 1..MaxSetups : NewWebGlResolveLeft(b, TRUE)
    \/ \E b \in 1..MaxSetups : TickLeft(b)
    \/ \E i \in 1..Len(calls) : \E res \in Results(calls[i].n) : SettleLeft(i, res)
    \/ PollFireLeft(TRUE)

MonitorSpec == Init /\ [][MonitorNext]_vars

\* ------------------------------------------------------------------ helpers
RECURSIVE SumTicks(_)
SumTicks(bs) == IF bs = <<>> THEN 0 ELSE Head(bs).ticks + SumTicks(Tail(bs))

\* Pending propagateLoop callbacks over all loops.
PendingTicks == SumTicks(boots)

ReleasedArgs == {released[i].arg : i \in 1..Len(released)}

IsCleanup(op) == op \in {"rerun", "unmount"}

\* The calendar, counted year by year from 2000-01-01 (JD 2451544.5).
IsLeap(y) == (y % 4 = 0 /\ y % 100 # 0) \/ y % 400 = 0
YearLen(y) == IF IsLeap(y) THEN 366 ELSE 365
RECURSIVE DaysSince2000(_)
DaysSince2000(y) ==
    IF y = 2000 THEN 0
    ELSE IF y > 2000 THEN DaysSince2000(y - 1) + YearLen(y - 1)
    ELSE DaysSince2000(y + 1) - YearLen(y)

\* A day fraction of e8 hundred-millionths is a whole number of milliseconds
\* (e8 * 86400000 / 10^8 = e8 * 108 / 125).
WholeMs(e8) == e8 % 125 = 0

\* The instant (doy - 1) days and e8 hundred-millionths of a day after 00:00
\* UTC on January 1st of 20yy (yy < 57) or 19yy, as a Julian day number and
\* the milliseconds into that Julian day, for WholeMs(e8).
ExpectedEpoch(yy, doy, e8) ==
    LET year == IF yy <= 56 THEN 2000 + yy ELSE 1900 + yy
        jan1 == 2451544 + DaysSince2000(year)
        t == (e8 \div 125) * 108 + MsPerDay \div 2
    IN  [dayNumber |-> jan1 + (doy - 1) + (t \div MsPerDay),
         msOfDay |-> t % MsPerDay]

\* The position of satellite j (0-based) in sample s, in metres.
MetresOf(s, j) == Pos(KmOf(s, j, 0) * 1000, KmOf(s, j, 1) * 1000, KmOf(s, j, 2) * 1000)

\* After such a step every Target entry holds its satellite's position of the
\* sample returned, in metres.
TargetIsSample(per) ==
    \A i \in 1..Len(calls) : \A res \in LayoutResults(calls[i].n) :
        (ResolveLayout(i, res) /\ res.ok /\ res.per = per)
        => \A k \in 1..Len(Val(metadata)) : target'[k] = MetresOf(res.sample, k - 1)

\* The same for a result of a single satellite.
SingleTargetIsSample(per) ==
    \A i \in 1..Len(calls) : \A res \in LayoutResults(calls[i].n) :
        (ResolveLayout(i, res) /\ res.ok /\ res.per = per /\ calls[i].n = 1)
        => \A k \in 1..Len(Val(metadata)) : target'[k] = MetresOf(res.sample, k - 1)

\* A buffer is whole: every entry is still the zero position it was created
\* with, or every entry is its satellite's position of one and the same sample.
Whole(buf) ==
    \/ \A k \in 1..Len(buf) : buf[k] = Zero
    \/ \E s \in LayoutSampleIds : \A k \in 1..Len(buf) : buf[k] = MetresOf(s, k - 1)

\* The clock at instant now is farther from the stop bound than the start
\* bound is.
OutsideSpan(now) ==
    Abs(SecondsDifference(now, StopTime)) > SecondsDifference(StopTime, StartTime)

\* What the rate limit asks of a frame step that brings the clock to now: with
\* ref the instant of the last recompute, or now itself in the first frame, a
\* difference of more than 1 second recomputes the transform for now and makes
\* now the last-recompute instant, and any smaller one keeps both.
RateLimited(now) ==
    LET ref == IF lastJDate = None THEN now ELSE Val(lastJDate)
    IN  IF Abs(SecondsDifference(now, ref)) > 1
        THEN modelMatrix' = Some([at |-> now]) /\ lastJDate' = Some(now)
        ELSE modelMatrix' = modelMatrix /\ lastJDate' = Some(ref)

\* The identities of a sequence of pre-allocated position objects.
IdsOf(objs) == [i \in 1..Len(objs) |-> objs[i].id]

\* What a frame step that moves the points leaves: every Current entry is the
\* Target entry, every pre-allocated object and every point carries those
\* components, and the pre-allocated objects are the ones a completed boot
\* created, one per metadata entry.
PointsMoved ==
    LET N == Len(Val(metadata)) IN
    /\ Len(current') = N /\ Len(pre') = N /\ Len(Val(points')) = N
    /\ \A i \in 1..N :
          /\ current'[i] = target[i]
          /\ Pos(pre'[i].x, pre'[i].y, pre'[i].z) = current'[i]
          /\ Val(points')[i] = current'[i]
    /\ IdsOf(pre') = IdsOf(pre)
    /\ \E b \in 1..Len(boots) :
          /\ boots[b].pc = "started"
          /\ IdsOf(pre') = [i \in 1..N |-> <<b, i - 1>>]

\* An animate listener exists only once boot has set every ref its guard
\* tests (lines 408-415 come before line 543), and no ref is cleared again:
\* the guard of lines 476-481 is never taken.
ListenerOnlyOnceInitialised ==
    listeners > 0 => metadata # None /\ points # None

\* No tick has taken the defer branch (line 435): while the component is alive
\* a loop has a pending tick or an outstanding call, never both.
DeferNeverTaken == last.op # "defer"

\* The most recent setup has registered a non-empty set and has not been torn
\* down.
LatestSetupRegistered ==
    /\ phase = "mounted"
    /\ boots # <<>> /\ boots[Len(boots)].pc = "started"
    /\ metadata # None /\ Len(Val(metadata)) > 0

\* The component has unmounted and nothing of it is left to run that could
\* register or release a set: no boot is awaiting, no call is outstanding and
\* no poll timer is pending.
TornDownAndSettled ==
    /\ phase = "unmounted"
    /\ \A b \in 1..Len(boots) : boots[b].pc \notin {"wasmInit", "newWebGpu", "newWebGl"}
    /\ calls = <<>>
    /\ polls = 0

\* The outstanding backend calls of boot b's loop.
CallsOf(b) == Cardinality({i \in 1..Len(calls) : calls[i].boot = b})

\* The sets the backend holds: registered and not passed to the release.
RegisteredSets == (0..(nextId - 1)) \ ReleasedArgs

\* The elements of a batch all of whose derivation steps succeed.
WellFormed(t) == t.kind = "ok"
Malformed(tles) == {k \in 1..Len(tles) : ~WellFormed(tles[k])}

\* The tags of the well-formed elements of a batch, in input order.
RECURSIVE KeptTags(_)
KeptTags(tles) ==
    IF tles = <<>> THEN <<>>
    ELSE IF WellFormed(Head(tles)) THEN <<Head(tles).tag>> \o KeptTags(Tail(tles))
    ELSE KeptTags(Tail(tles))

\* The registry is dense and aligned: entry k is the k-th kept element of the
\* batch some completed boot was given, its idx is k - 1, and constants,
\* Target, Current, the pre-allocated positions and the point list have one
\* entry per metadata entry, in the same order.
DenseRegistry ==
    metadata # None =>
        LET md == Val(metadata) IN
        /\ \E b \in 1..Len(boots) :
               /\ boots[b].pc = "started"
               /\ [k \in 1..Len(md) |-> md[k].tag] = KeptTags(boots[b].tles)
        /\ \A k \in 1..Len(md) : md[k].idx = k - 1
        /\ {md[k].idx : k \in 1..Len(md)} = 0..(Len(md) - 1)
        /\ constants # None /\ points # None
        /\ Val(constants) = [k \in 1..Len(md) |-> md[k].tag]
        /\ Len(target) = Len(md) /\ Len(current) = Len(md)
        /\ Len(Val(points)) = Len(md)
        /\ [k \in 1..Len(pre) |-> pre[k].id[2]] = [k \in 1..Len(md) |-> md[k].idx]

\* ------------------------------------------------------------------- claims

\* C1: the in-flight counter is 0 or 1 in every reachable state, and it equals
\* the number of outstanding backend propagate calls, so no call is started
\* while the counter is 1.
C1_InflightZeroOrOne ==
    /\ inflight \in {0, 1}
    /\ Len(calls) = inflight

\* C1 witness: a render frame has run while one call is outstanding.
C1_Witness == inflight = 1 /\ Len(calls) = 1 /\ last.op = "frame"

\* C2: once the cleanup has run, no step starts a backend propagate call or
\* increments the in-flight counter.
C2_NoCallAfterTeardown ==
    [][tornDown => (Len(calls') <= Len(calls) /\ inflight' <= inflight)]_vars

\* C2 witness: after the cleanup a tick fired and returned while the handle was
\* still registered and the release was still being polled for.
C2_Witness ==
    /\ tornDown
    /\ last.op = "tick" /\ ~last.started
    /\ handle # NoHandle /\ polls > 0 /\ inflight = 0

\* C3: every step that invokes unregister_const_set starts with the in-flight
\* counter at 0 and no backend call outstanding.
C3_ReleaseOnlyWhenIdle ==
    [][Len(released') > Len(released) => (inflight = 0 /\ calls = <<>>)]_vars

\* C3 witness: the release was invoked by a poll timer, that is, the cleanup
\* had found a call in flight and put the release off.
C3_Witness == last.op = "poll" /\ last.started /\ last.arg # NoHandle

\* C4 (as claimed): unregister_const_set is invoked at most once per handle and
\* never with the cleared (null) handle ref.
C4_ReleaseAtMostOnce ==
    /\ \A i \in 1..Len(released) : released[i].arg # NoHandle
    /\ \A i, j \in 1..Len(released) : i # j => released[i].arg # released[j].arg

\* C5: every outstanding propagate call was given a handle that is the
\* registered one and has not been passed to the release primitive.
C5_CallsUseLiveHandle ==
    \A i \in 1..Len(calls) :
        /\ calls[i].handle # NoHandle
        /\ calls[i].handle = handle
        /\ calls[i].handle < nextId
        /\ calls[i].handle \notin ReleasedArgs

\* C5 witness: a call is outstanding across a cleanup that is polling.
C5_Witness == Len(calls) = 1 /\ tornDown /\ polls > 0 /\ calls[1].handle = handle

\* C6: a cleanup that finds handle h registered leads to a state where h has
\* been passed to the release primitive, the handle ref is cleared and no poll
\* timer is pending (under FairSpec).
C6_TeardownReleases ==
    \A h \in 0..(MaxSetups - 1) :
        (IsCleanup(last.op) /\ last.arg = h)
            ~> (h \in ReleasedArgs /\ handle = NoHandle /\ polls = 0)

\* C6 witness: the release came from a poll timer after a call in flight at
\* the cleanup had settled.
C6_Witness ==
    /\ last.op = "poll" /\ last.started /\ last.arg # NoHandle
    /\ handle = NoHandle /\ polls = 0

\* C7: a step in which a propagate call fails leaves the target buffer as it
\* was, takes the counter from 1 to 0, requests one more tick, logs the error
\* and lets no exception escape.
C7_FailedCallRecovered ==
    [][(last'.op = "resolve" /\ ~last'.started) =>
          /\ target' = target
          /\ inflight = 1 /\ inflight' = 0
          /\ PendingTicks' = PendingTicks + 1
          /\ "propagate" \in errlog'
          /\ uncaught' = uncaught]_vars

\* C7 witness: a call has failed after an earlier one had filled the target.
C7_Witness ==
    /\ last.op = "resolve" /\ ~last.started
    /\ \E i \in 1..Len(target) : target[i] # Zero

\* C8: once the registry refs are set, Target, Current and the metadata have
\* the same length, the number of elements that survived the filter.
C8_SameLengths ==
    metadata # None =>
        /\ Len(target) = Len(Val(metadata))
        /\ Len(current) = Len(Val(metadata))
        /\ \E b \in 1..Len(boots) :
              Len(Val(metadata)) = Len(Parsed(boots[b].tles))

\* C8 witness: a render frame has copied a propagated target into current.
C8_Witness ==
    /\ metadata # None
    /\ last.op = "frame"
    /\ \E i \in 1..Len(current) : current[i] # Zero

\* C9: a cleanup that finds no handle registered invokes the release
\* primitive zero times, schedules no poll and raises no error.
C9_TeardownWithoutHandle ==
    [][(IsCleanup(last'.op) /\ handle = NoHandle) =>
          /\ released' = released
          /\ polls' = polls
          /\ handle' = NoHandle
          /\ errlog' = errlog
          /\ uncaught' = uncaught]_vars

\* C9 witness: the component was unmounted before any set was registered.
C9_Witness ==
    /\ last.op = "unmount" /\ last.arg = NoHandle
    /\ nextId = 0 /\ released = <<>> /\ polls = 0

\* C10 (as claimed): a boot whose backend initialisation failed reports the
\* failure to its caller, that is, its promise is rejected.
C10_InitFailureReported ==
    \A b \in 1..Len(boots) :
        boots[b].pc = "initFailed" => boots[b].settled = "rejected"

\* C10 (amended): the step in which a boot's backend initialisation fails
\* registers nothing, installs no listener, requests no tick, logs the failure
\* and fulfils the boot's promise; the boot never runs again.
C10_InitFailureSwallowed ==
    [][\A b \in 1..Len(boots) :
          /\ (boots[b].pc # "initFailed" /\ boots'[b].pc = "initFailed") =>
                /\ nextId' = nextId
                /\ handle' = handle
                /\ metadata' = metadata
                /\ listeners' = listeners
                /\ PendingTicks' = PendingTicks
                /\ isLoaded' = isLoaded
                /\ "init" \in errlog'
                /\ boots'[b].settled = "fulfilled"
                /\ uncaught' = uncaught
          /\ boots[b].pc = "initFailed" => boots'[b] = boots[b]]_vars

\* C10 witness: both constructors failed and nothing was started.
C10_Witness ==
    /\ last.op = "newWebGl" /\ ~last.started
    /\ \E b \in 1..Len(boots) : boots[b].pc = "initFailed"
    /\ nextId = 0 /\ listeners = 0 /\ PendingTicks = 0

\* C11 (as claimed): once a boot has a propagator and has gone through the
\* derivation steps of a batch with exactly one malformed element, it has not
\* been aborted, and metadata, constants, Target and Current hold one entry
\* per remaining element (N - 1), whichever step the element fails at.
C11_MalformedDropped ==
    \A b \in 1..Len(boots) :
        (/\ boots[b].pc \in {"started", "threw"}
         /\ Cardinality(Malformed(boots[b].tles)) = 1)
        => /\ boots[b].pc = "started"
           /\ boots[b].settled = "fulfilled"
           /\ "boot" \notin uncaught
           /\ metadata # None /\ constants # None
           /\ Len(Val(metadata)) = Len(boots[b].tles) - 1
           /\ Len(Val(constants)) = Len(boots[b].tles) - 1
           /\ Len(target) = Len(boots[b].tles) - 1
           /\ Len(current) = Len(boots[b].tles) - 1

\* C12: after registration the registry is dense and aligned (idx of the k-th
\* kept element is k - 1, the idx values are 0..N-1, constants, Target, Current
\* and the point list follow the same order), and no later step changes the
\* metadata.
C12_DenseStable ==
    [][DenseRegistry' /\ (metadata # None => metadata' = metadata)]_vars

\* C12 witness: the first element of the batch was dropped, so filtered order
\* differs from input order; a propagate result has been written and a frame
\* has moved the points.
C12_Witness ==
    /\ metadata # None /\ Len(Val(metadata)) = 1
    /\ Val(metadata)[1].tag = 2 /\ Val(metadata)[1].idx = 0
    /\ last.op = "frame" /\ current # <<Zero>>

\* C13 (as claimed): in one component instance register_const_set is invoked
\* at most once, and the backend holds at most one registered set at any time,
\* whatever the sequence of setup-effect runs.
C13_RegistersOnce ==
    /\ nextId <= 1
    /\ Cardinality(RegisteredSets) <= 1

\* C14 (as claimed): every metadata entry holds, for the encoded epoch (yy, d)
\* of its element, the instant (d - 1) days after 00:00 UTC on January 1st of
\* 2000+yy when yy < 57 and of 1900+yy otherwise, for every yy in 0..99 and
\* every d whose instant is a whole number of milliseconds; the epoch
\* "24091.50000000" is decoded to 2024-03-31T12:00:00.000Z, Julian date
\* 2460401.0.
C14_EpochDecoded ==
    metadata # None =>
        \A k \in 1..Len(Val(metadata)) :
            LET enc == boots[1].tles[Val(metadata)[k].tag].epoch
                dec == Val(metadata)[k].epoch
            IN  /\ \A yy \in EpochYears, doy \in EpochDays, e8 \in EpochFractions :
                       (enc = EpochStr(yy, doy, e8) /\ WholeMs(e8))
                       => dec = ExpectedEpoch(yy, doy, e8)
                /\ enc = <<"2", "4", "0", "9", "1", ".", "5", "0", "0", "0", "0", "0", "0", "0">>
                       => dec = [dayNumber |-> 2460401, msOfDay |-> 0]

\* C15 (as claimed): after a successful propagate call that returns one sample
\* per satellite, 3 or 6 components each, every Target[i] is the position of
\* sample i times 1000.
C15_TargetFromAnyLayout ==
    [][TargetIsSample(3) /\ TargetIsSample(6)]_vars

\* C15 (amended): after a successful propagate call that returns 6 components
\* per satellite, or 3 components for a single satellite, every Target[i] is
\* the position of sample i times 1000 and none keeps its previous value.
C15_TargetFromSupportedLayout ==
    [][TargetIsSample(6) /\ SingleTargetIsSample(3)]_vars

\* C15 witness: a 6-component result of sample 2 has overwritten, in both
\* entries, the values of sample 1 a frame had copied into Current before.
C15_Witness ==
    /\ last.op = "resolve" /\ last.started
    /\ Len(target) = 2
    /\ target = <<MetresOf(2, 0), MetresOf(2, 1)>>
    /\ current = <<MetresOf(1, 0), MetresOf(1, 1)>>

\* C16: in every reachable state, so at every render frame, Target is whole
\* (entirely the values of one completed write, or entirely the values before
\* the first), and so is the Current a frame has copied from it.
C16_NoTornTarget == Whole(target) /\ Whole(current)

\* C16 witness: a frame ran while a call was outstanding and read the Target
\* an earlier call had written.
C16_Witness ==
    /\ last.op = "frame" /\ inflight = 1
    /\ Len(target) = 2 /\ target[1] # Zero
    /\ current = target

\* C17 (as claimed): a render frame of an initialised component whose clock
\* is farther from the stop bound than the start-to-stop span resets the clock
\* to the start bound and leaves Current, the point positions, the transform
\* and the last-recompute instant unchanged; any other frame leaves the clock
\* where its own tick has put it.
C17_ResetOnlyOutsideSpan ==
    [][\A d \in WideSteps :
          (RenderFrameWide(d) /\ listeners > 0)
          => IF OutsideSpan(AddSeconds(clock, d))
             THEN /\ clock' = StartTime
                  /\ UNCHANGED <<current, points, pre, modelMatrix, lastJDate>>
             ELSE clock' = AddSeconds(clock, d)]_vars

\* C18 (as claimed): in every render frame of an initialised component the
\* transform is recomputed exactly when the simulated time differs by more than
\* 1 second from the last-recompute instant (or from the first frame's).
C18_RecomputeInEveryFrame ==
    [][\A d \in WideSteps :
          (RenderFrameWide(d) /\ listeners > 0) => RateLimited(AddSeconds(clock, d))]_vars

\* C18 (amended): the same in every render frame that is initialised and is
\* not skipped by the wraparound test.
C18_RecomputeInUnskippedFrame ==
    [][\A d \in WideSteps :
          (RenderFrameWide(d) /\ listeners > 0 /\ ~Wraps(AddSeconds(clock, d)))
          => RateLimited(AddSeconds(clock, d))]_vars

\* C18 witness: a frame one second after a recompute has kept the transform
\* and the last-recompute instant.
C18_Witness ==
    /\ last.op = "frame" /\ listeners > 0
    /\ modelMatrix # None /\ lastJDate # None
    /\ Val(modelMatrix).at = Val(lastJDate)
    /\ SecondsDifference(clock, Val(lastJDate)) = 1

\* C19: after every render frame that is initialised and not skipped by the
\* wraparound test, Current[i] is Target[i] for every i, point i and the i-th
\* pre-allocated position object carry the components of Current[i], and the
\* pre-allocated objects are those created at registration.
C19_PointsFollowTarget ==
    [][\A d \in WideSteps :
          (RenderFrameWide(d) /\ listeners > 0 /\ ~Wraps(AddSeconds(clock, d)))
          => PointsMoved]_vars

\* C19 witness: a frame has moved both points to the positions a propagate
\* result had put into Target, in the objects boot 1 created.
C19_Witness ==
    /\ last.op = "frame" /\ listeners > 0
    /\ Len(target) = 2 /\ target[2] # Zero
    /\ current = target /\ points = Some(target)
    /\ IdsOf(pre) = <<(<<1, 0>>), (<<1, 1>>)>>
    /\ Pos(pre[2].x, pre[2].y, pre[2].z) = target[2]

\* C20: a step in which unregister_const_set throws lets nothing escape, logs
\* the failure, arms no timer to try again and clears the handle ref as a
\* successful release does; and no registered handle is ever passed to the
\* release primitive a second time, by a later cleanup or by a timer.
C20_FailedReleaseIsFinal ==
    [][/\ (Len(released') > Len(released) /\ ~released'[Len(released')].ok)
          => /\ uncaught' = uncaught
             /\ "unregister" \in errlog'
             /\ polls' <= polls
             /\ handle' = NoHandle
       /\ \A i, j \in 1..Len(released') :
             (i # j /\ released'[i].arg = released'[j].arg)
             => released'[i].arg = NoHandle]_vars

\* C20 witness: the release of handle 0 threw in a cleanup, and the cleanup of
\* the later unmount found the ref cleared and called nothing.
C20_Witness ==
    /\ last.op = "unmount" /\ last.arg = NoHandle
    /\ Len(released) = 1
    /\ released[1] = [arg |-> 0, ok |-> FALSE]
    /\ handle = NoHandle /\ polls = 0
    /\ "unregister" \in errlog /\ uncaught = {}

\* C23: a render frame never changes the in-flight counter, the liveness flag,
\* the handle ref or Target; a propagation tick, and the settling of its
\* backend call, never changes Current, the pre-allocated positions, the point
\* positions, the transform or the last-recompute instant.
C23_MutationPartitioned ==
    [][/\ last'.op = "frame"
          => UNCHANGED <<inflight, alive, handle, target>>
       /\ last'.op \in {"tick", "defer", "resolve"}
          => UNCHANGED <<current, pre, points, modelMatrix, lastJDate>>]_vars

\* C23 witness: a call has settled and written Target after a frame had moved
\* the points, and Current still holds what that frame copied.
C23_Witness ==
    /\ last.op = "resolve" /\ last.started
    /\ Len(target) = 2 /\ target[1] # Zero
    /\ current = <<Zero, Zero>>
    /\ lastJDate # None

\* C24 (as claimed): whenever the most recent setup has registered a non-empty
\* set and has not been torn down, a backend propagate call is on its way: one
\* is outstanding, or a pending tick passes the early returns and starts one.
C24_CallStarts ==
    LatestSetupRegistered
    => \/ calls # <<>>
       \/ \E b \in 1..Len(boots) : boots[b].ticks > 0 /\ MayStart

\* C25 (as claimed): once the component has been torn down and everything it
\* started has settled, every handle the registration primitive returned has
\* been passed to the release primitive: no registered set is left.
C25_NoSetLeaked == TornDownAndSettled => RegisteredSets = {}

\* C26: while the component is alive with a registered set and non-empty
\* metadata, the loop a boot has started has exactly one pending tick or
\* outstanding call: it has neither died nor forked.
C26_OneChainPerLoop ==
    \A b \in 1..Len(boots) :
        (/\ boots[b].pc = "started"
         /\ alive /\ handle # NoHandle
         /\ metadata # None /\ Len(Val(metadata)) > 0)
        => boots[b].ticks + CallsOf(b) = 1

\* C26 witness: a backend call has failed and the loop is alive, with its one
\* tick pending again.
C26_Witness ==
    /\ last.op = "resolve" /\ ~last.started
    /\ alive /\ handle # NoHandle
    /\ boots[1].pc = "started" /\ boots[1].ticks = 1 /\ calls = <<>>

\* C27 (as claimed): the monitor publishes statistics only once per 30
\* measured frames, however many frames have been measured since the reset.
C27_PublishedOncePerPeriod ==
    monitor.published * 30 <= monitor.measured

====
